---------------------------- MODULE Spec2Model ----------------------------
(***************************************************************************)
(* Model of the BBL (blackbox log) reader of src/main.rs: the header scan  *)
(* of main, parse_field_definitions, decode_binary_data and the two VLQ    *)
(* readers.  Text is modelled as it is in the program: a string is the     *)
(* sequence of its ASCII codes, a byte buffer is a sequence of 0..255.     *)
(* A u32 is the set of its set bit positions (a subset of 0..31), so that  *)
(* shifts and ors keep their 32-bit width; an i32 is an integer.           *)
(***************************************************************************)
EXTENDS Integers, Sequences, FiniteSets, TLC

(***************************************************************************)
(* Bounds of the model.                                                    *)
(***************************************************************************)
\* The input file's header block is a sub-list of the first MaxHeaderLines
\* lines of HeaderPool.
MaxHeaderLines == 7
\* The bytes that follow the header block: at most MaxTail bytes of TailBytes.
MaxTail == 6
\* decode_binary_data is run with the first NDesired names of main's list.
NDesired == 2
\* The VLQ round trip is run on the integers -MaxSmall..MaxSmall (and on
\* VlqEdges) with 0..MaxPad bytes before and after the encoded value.
MaxSmall == 24
MaxPad == 1

(***************************************************************************)
(* Text and bytes.                                                         *)
(***************************************************************************)
NEWLINE == 10
COMMA == 44

\* The header prefixes of parse_field_definitions and decode_binary_data.
\* "H Field I name:"
NAME_PREFIX ==
  <<72, 32, 70, 105, 101, 108, 100, 32, 73, 32, 110, 97, 109, 101, 58>>
\* "H Field I encoding:"
ENCODING_PREFIX ==
  <<72, 32, 70, 105, 101, 108, 100, 32, 73, 32, 101, 110, 99, 111, 100, 105, 110, 103, 58>>
\* "H Field I signed:"
SIGNED_PREFIX ==
  <<72, 32, 70, 105, 101, 108, 100, 32, 73, 32, 115, 105, 103, 110, 101, 100, 58>>
\* "H Field I predictor:"
PREDICTOR_PREFIX ==
  <<72, 32, 70, 105, 101, 108, 100, 32, 73, 32, 112, 114, 101, 100, 105, 99, 116, 111, 114, 58>>

\* The literal "1" that a signed flag is compared with.
STR_ONE == <<49>>

\* desired_fields of main, in main's order.
ALL_DESIRED == <<
  <<108, 111, 111, 112, 73, 116, 101, 114, 97, 116, 105, 111, 110>>,   \* "loopIteration"
  <<116, 105, 109, 101>>,   \* "time"
  <<97, 120, 105, 115, 80, 91, 48, 93>>,   \* "axisP[0]"
  <<97, 120, 105, 115, 80, 91, 49, 93>>,   \* "axisP[1]"
  <<97, 120, 105, 115, 80, 91, 50, 93>>,   \* "axisP[2]"
  <<97, 120, 105, 115, 73, 91, 48, 93>>,   \* "axisI[0]"
  <<97, 120, 105, 115, 73, 91, 49, 93>>,   \* "axisI[1]"
  <<97, 120, 105, 115, 73, 91, 50, 93>>,   \* "axisI[2]"
  <<97, 120, 105, 115, 68, 91, 48, 93>>,   \* "axisD[0]"
  <<97, 120, 105, 115, 68, 91, 49, 93>>,   \* "axisD[1]"
  <<97, 120, 105, 115, 70, 91, 48, 93>>,   \* "axisF[0]"
  <<97, 120, 105, 115, 70, 91, 49, 93>>,   \* "axisF[1]"
  <<97, 120, 105, 115, 70, 91, 50, 93>>   \* "axisF[2]"
  >>

\* The lines an input file's header block is drawn from, in file order.
HeaderPool == <<
  \* "H Field I name:loopIteration, time,axisP[0]"
  <<72, 32, 70, 105, 101, 108, 100, 32, 73, 32, 110, 97, 109, 101, 58, 108, 111, 111, 112, 73, 116, 101, 114, 97, 116, 105, 111, 110, 44, 32, 116, 105, 109, 101, 44, 97, 120, 105, 115, 80, 91, 48, 93>>,
  \* "H Field I encoding:1,0,1"
  <<72, 32, 70, 105, 101, 108, 100, 32, 73, 32, 101, 110, 99, 111, 100, 105, 110, 103, 58, 49, 44, 48, 44, 49>>,
  \* "H Field I signed:0,1,0"
  <<72, 32, 70, 105, 101, 108, 100, 32, 73, 32, 115, 105, 103, 110, 101, 100, 58, 48, 44, 49, 44, 48>>,
  \* "H Field I predictor:0,0,0"
  <<72, 32, 70, 105, 101, 108, 100, 32, 73, 32, 112, 114, 101, 100, 105, 99, 116, 111, 114, 58, 48, 44, 48, 44, 48>>,
  \* "H Field I name:time"
  <<72, 32, 70, 105, 101, 108, 100, 32, 73, 32, 110, 97, 109, 101, 58, 116, 105, 109, 101>>,
  \* "H Field I encoding:0,9"
  <<72, 32, 70, 105, 101, 108, 100, 32, 73, 32, 101, 110, 99, 111, 100, 105, 110, 103, 58, 48, 44, 57>>,
  \* "H Field I signed:1"
  <<72, 32, 70, 105, 101, 108, 100, 32, 73, 32, 115, 105, 103, 110, 101, 100, 58, 49>>,
  \* "H Field I predictor:1, x"
  <<72, 32, 70, 105, 101, 108, 100, 32, 73, 32, 112, 114, 101, 100, 105, 99, 116, 111, 114, 58, 49, 44, 32, 120>>,
  \* "H Product:Blackbox"
  <<72, 32, 80, 114, 111, 100, 117, 99, 116, 58, 66, 108, 97, 99, 107, 98, 111, 120>>
  >>

\* The bytes that follow the header block are drawn from these: a line feed
\* (an ASCII byte, and a one-byte VLQ) and 0x85 (not ASCII, a VLQ continuation).
TailBytes == {10, 133}

\* u8::is_ascii
is_ascii(byte) == byte < 128

\* char::is_whitespace on an ASCII character
is_whitespace(c) == c \in {9, 10, 11, 12, 13, 32}

\* str::starts_with
starts_with(s, p) == Len(s) >= Len(p) /\ SubSeq(s, 1, Len(p)) = p

\* header[PREFIX.len()..]
StripPrefix(s, p) == SubSeq(s, Len(p) + 1, Len(s))

RECURSIVE TrimStart(_)
TrimStart(s) ==
  IF s # <<>> /\ is_whitespace(Head(s)) THEN TrimStart(Tail(s)) ELSE s

RECURSIVE TrimEnd(_)
TrimEnd(s) ==
  IF s # <<>> /\ is_whitespace(s[Len(s)])
  THEN TrimEnd(SubSeq(s, 1, Len(s) - 1))
  ELSE s

\* str::trim
trim(s) == TrimEnd(TrimStart(s))

\* str::split(sep), collected: always at least one piece
RECURSIVE split(_, _)
split(s, sep) ==
  IF \E i \in 1..Len(s) : s[i] = sep
  THEN LET i == CHOOSE k \in 1..Len(s) :
                   s[k] = sep /\ \A m \in 1..(k - 1) : s[m] # sep
       IN  <<SubSeq(s, 1, i - 1)>> \o split(SubSeq(s, i + 1, Len(s)), sep)
  ELSE <<s>>

\* The value of a digit string, capped at 256 (anything above 255 is an error).
RECURSIVE DigitsValue(_, _)
DigitsValue(d, acc) ==
  IF d = <<>> THEN acc
  ELSE LET v == acc * 10 + (Head(d) - 48)
       IN  DigitsValue(Tail(d), IF v > 255 THEN 256 ELSE v)

\* str::parse::<u8>: an optional '+', then one or more decimal digits, at most 255.
parse_u8(s) ==
  LET d == IF s # <<>> /\ s[1] = 43 THEN Tail(s) ELSE s
  IN  IF d = <<>> \/ \E i \in 1..Len(d) : d[i] \notin 48..57
      THEN [ok |-> FALSE, val |-> 0]
      ELSE LET v == DigitsValue(d, 0)
           IN  IF v > 255 THEN [ok |-> FALSE, val |-> 0]
               ELSE [ok |-> TRUE, val |-> v]

\* s.parse::<u8>().unwrap_or(0)
parse_u8_or_0(s) == LET r == parse_u8(s) IN IF r.ok THEN r.val ELSE 0

\* the pieces of a header's list: header[PREFIX.len()..].split(',').map(trim)
ListOf(header, prefix) ==
  LET pieces == split(StripPrefix(header, prefix), COMMA)
  IN  [i \in 1..Len(pieces) |-> trim(pieces[i])]

(***************************************************************************)
(* 32-bit values.                                                          *)
(***************************************************************************)
\* The set bit positions of a byte.
BitsOfByte(byte) == {i \in 0..7 : (byte \div (2 ^ i)) % 2 = 1}

\* The number whose set bits are `bits`, a subset of 0..30.
RECURSIVE BitsValue(_)
BitsValue(bits) ==
  IF bits = {} THEN 0
  ELSE LET i == CHOOSE k \in bits : TRUE
       IN  (2 ^ i) + BitsValue(bits \ {i})

\* `value as i32` of a u32: two's complement
AsI32(bits) ==
  IF 31 \in bits
  THEN (BitsValue(bits \ {31}) - 2147483647) - 1
  ELSE BitsValue(bits)

\* value >> 1
Shr1(bits) == {i - 1 : i \in bits \ {0}}

\* i32::abs: of i32::MIN it overflows (a panic in a debug build, i32::MIN in a
\* release build)
abs(val) ==
  IF val = (-2147483647) - 1 THEN [val |-> val, overflow |-> TRUE]
  ELSE [val |-> IF val < 0 THEN -val ELSE val, overflow |-> FALSE]

(***************************************************************************)
(* The VLQ readers.                                                        *)
(***************************************************************************)
\* The loop of read_unsigned_vlq with the bounds check off by one: it reads
\* one position past the end of the buffer (as a zero byte).
RECURSIVE VlqLoopPastEnd(_, _, _, _, _)
VlqLoopPastEnd(data, cursor, value, shift, overflow) ==
  IF cursor > Len(data)
  THEN [value |-> value, cursor |-> cursor, overflow |-> overflow]
  ELSE LET byte == IF cursor < Len(data) THEN data[cursor + 1] ELSE 0
           nv == value \cup
                   ({i + (shift % 32) : i \in BitsOfByte(byte) \cap (0..6)}
                      \cap (0..31))
           ov == overflow \/ shift >= 32
       IN  IF byte < 128
           THEN [value |-> nv, cursor |-> cursor + 1, overflow |-> ov]
           ELSE VlqLoopPastEnd(data, cursor + 1, nv, shift + 7, ov)

\* The loop of read_unsigned_vlq with shift advanced by 8 bits a byte.
RECURSIVE VlqLoopShift8(_, _, _, _, _)
VlqLoopShift8(data, cursor, value, shift, overflow) ==
  IF cursor >= Len(data)
  THEN [value |-> value, cursor |-> cursor, overflow |-> overflow]
  ELSE LET byte == data[cursor + 1]
           nv == value \cup
                   ({i + (shift % 32) : i \in BitsOfByte(byte) \cap (0..6)}
                      \cap (0..31))
           ov == overflow \/ shift >= 32
       IN  IF byte < 128
           THEN [value |-> nv, cursor |-> cursor + 1, overflow |-> ov]
           ELSE VlqLoopShift8(data, cursor + 1, nv, shift + 8, ov)

\* The loop of read_unsigned_vlq, from `cursor` (0-based) with `value` and
\* `shift` as accumulated so far.  `overflow` records a shift of 32 bits or
\* more: `<<` then panics in a debug build and shifts by shift mod 32 in a
\* release build.
RECURSIVE VlqLoop(_, _, _, _, _)
VlqLoop(data, cursor, value, shift, overflow) ==
  IF cursor >= Len(data)
  THEN [value |-> value, cursor |-> cursor, overflow |-> overflow]
  ELSE LET byte == data[cursor + 1]
           nv == value \cup
                   ({i + (shift % 32) : i \in BitsOfByte(byte) \cap (0..6)}
                      \cap (0..31))
           ov == overflow \/ shift >= 32
       IN  IF byte < 128
           THEN [value |-> nv, cursor |-> cursor + 1, overflow |-> ov]
           ELSE VlqLoop(data, cursor + 1, nv, shift + 7, ov)

read_unsigned_vlq(data, cursor) == VlqLoop(data, cursor, {}, 0, FALSE)

\* read_signed_vlq: bit 0 is the sign, the other bits the magnitude
read_signed_vlq(data, cursor) ==
  LET r == read_unsigned_vlq(data, cursor)
      magnitude == AsI32(Shr1(r.value))
  IN  [value |-> IF 0 \in r.value THEN -magnitude ELSE magnitude,
       cursor |-> r.cursor, overflow |-> r.overflow]

\* The value of one field (the match of decode_binary_data): the reader of
\* its encoding, then abs unless the field is signed.  encoding is 0 or 1.
DecodeValue(data, cursor, encoding, signed) ==
  LET r == IF encoding = 0 THEN read_signed_vlq(data, cursor)
           ELSE LET u == read_unsigned_vlq(data, cursor)
                IN  [value |-> AsI32(u.value), cursor |-> u.cursor,
                     overflow |-> u.overflow]
      a == abs(r.value)
  IN  IF signed THEN r
      ELSE [value |-> a.val, cursor |-> r.cursor,
            overflow |-> r.overflow \/ a.overflow]

(***************************************************************************)
(* The header scan of main.                                                *)
(***************************************************************************)
\* BufRead::read_until(b'\n'): the bytes of `file` from position pos
\* (0-based) up to and including the first line feed, or to the end.
read_until(file, pos) ==
  LET rest == SubSeq(file, pos + 1, Len(file))
  IN  IF \E i \in 1..Len(rest) : rest[i] = NEWLINE
      THEN SubSeq(rest, 1, CHOOSE k \in 1..Len(rest) :
                             rest[k] = NEWLINE
                             /\ \A m \in 1..(k - 1) : rest[m] # NEWLINE)
      ELSE rest

\* The loop that reads the headers: every line read is taken from the reader;
\* an all-ASCII line is pushed trimmed, the first other line ends the loop.
\* `accepted` counts the bytes of the lines pushed as headers.
RECURSIVE ScanLoop(_, _, _, _)
ScanLoop(file, pos, hdrs, accepted) ==
  LET header_line == read_until(file, pos)
  IN  IF Len(header_line) = 0
      THEN [headers |-> hdrs, pos |-> pos, accepted |-> accepted]
      ELSE IF \A i \in 1..Len(header_line) : is_ascii(header_line[i])
           THEN ScanLoop(file, pos + Len(header_line),
                         Append(hdrs, trim(header_line)),
                         accepted + Len(header_line))
           ELSE [headers |-> hdrs, pos |-> pos + Len(header_line),
                 accepted |-> accepted]

(***************************************************************************)
(* parse_field_definitions.                                                *)
(***************************************************************************)
\* The loop over the headers: each matching line overwrites its list.
RECURSIVE ParseLoop(_, _, _)
ParseLoop(hdrs, i, acc) ==
  IF i > Len(hdrs) THEN acc
  ELSE LET header == hdrs[i]
           next ==
             IF starts_with(header, NAME_PREFIX)
             THEN [acc EXCEPT !.field_names = ListOf(header, NAME_PREFIX)]
             ELSE IF starts_with(header, ENCODING_PREFIX)
             THEN [acc EXCEPT !.encoding_types =
                     LET l == ListOf(header, ENCODING_PREFIX)
                     IN  [k \in 1..Len(l) |-> parse_u8_or_0(l[k])]]
             ELSE IF starts_with(header, SIGNED_PREFIX)
             THEN [acc EXCEPT !.signed_flags =
                     LET l == ListOf(header, SIGNED_PREFIX)
                     IN  [k \in 1..Len(l) |-> l[k] = STR_ONE]]
             ELSE IF starts_with(header, PREDICTOR_PREFIX)
             THEN [acc EXCEPT !.predictor_types =
                     LET l == ListOf(header, PREDICTOR_PREFIX)
                     IN  [k \in 1..Len(l) |-> parse_u8_or_0(l[k])]]
             ELSE acc
       IN  ParseLoop(hdrs, i + 1, next)

\* list.get(i).unwrap_or(default), i 1-based here
GetOr(list, i, default) == IF i <= Len(list) THEN list[i] ELSE default

parse_field_definitions(hdrs) ==
  LET p == ParseLoop(hdrs, 1, [field_names |-> <<>>, encoding_types |-> <<>>,
                               signed_flags |-> <<>>, predictor_types |-> <<>>])
  IN  [i \in 1..Len(p.field_names) |->
         [name |-> p.field_names[i],
          encoding |-> GetOr(p.encoding_types, i, 0),
          signed |-> GetOr(p.signed_flags, i, FALSE),
          predictor |-> GetOr(p.predictor_types, i, 0)]]

\* field_map of main: the definitions keyed by name, a later definition of a
\* name replacing an earlier one.
FieldMap(defs) ==
  [n \in {defs[i].name : i \in 1..Len(defs)} |->
     defs[CHOOSE i \in 1..Len(defs) :
            defs[i].name = n /\ \A k \in (i + 1)..Len(defs) : defs[k].name # n]]

\* desired_fields as passed to decode_binary_data
desired_fields == SubSeq(ALL_DESIRED, 1, NDesired)

\* csv_header of main: the desired names that the field map holds, in order
CsvHeader(defs) ==
  LET InMap(n) == n \in DOMAIN FieldMap(defs)
  IN  SelectSeq(desired_fields, InMap)

\* headers.iter().find(|h| h.starts_with(prefix)): the first such line
HasLine(hdrs, prefix) == \E i \in 1..Len(hdrs) : starts_with(hdrs[i], prefix)

FindLine(hdrs, prefix) ==
  hdrs[CHOOSE i \in 1..Len(hdrs) :
         starts_with(hdrs[i], prefix)
         /\ \A k \in 1..(i - 1) : ~starts_with(hdrs[k], prefix)]

\* field_names.iter().position(|r| r == field_name): 0 when there is none
Position(names, field_name) ==
  IF \E i \in 1..Len(names) : names[i] = field_name
  THEN CHOOSE i \in 1..Len(names) :
         names[i] = field_name /\ \A k \in 1..(i - 1) : names[k] # field_name
  ELSE 0

(***************************************************************************)
(* State.                                                                  *)
(***************************************************************************)
VARIABLES
  file,              \* the bytes of the input file
  reader_pos,        \* how many bytes of the file `reader` has handed out
  headers,           \* main's headers
  accepted_bytes,    \* history: the bytes of the lines pushed to headers
  field_definitions, \* the result of parse_field_definitions
  csv_header,        \* the header row main writes
  buffer,            \* main's buffer, the `data` of decode_binary_data
  cursor,            \* decode_binary_data's cursor
  field_names,       \* the four lists decode_binary_data reads from the
  encoding_types,    \*   headers itself (lists of strings)
  signed_types,
  predictor_types,
  fi,                \* the position of the for loop in desired_fields
  record,            \* the record being built (values before to_string)
  valid_record,
  rows,              \* the data rows the writer took, in order
  discard_reason,    \* history: why the last discarded record was discarded
  write_failed,      \* history: a data row's write_record returned Err
  decode_result,     \* what decode_binary_data returned: "none", "Ok", "Err"
  result,            \* how main ended: "none", "Ok", "Err", "panic"
  panic_msg,         \* which panic ended it
  build,             \* "any" until an overflow passed unchecked: "release"
  pc,
  vlq_in,            \* the round trip's integer,
  vlq_start,         \*   the cursor it is decoded from,
  vlq_len,           \*   the length of its encoding,
  vlq_out            \*   and what read_signed_vlq returned

vars ==
  <<file, reader_pos, headers, accepted_bytes, field_definitions, csv_header,
    buffer, cursor, field_names, encoding_types, signed_types,
    predictor_types, fi, record, valid_record, rows, discard_reason,
    write_failed, decode_result, result, panic_msg, build, pc, vlq_in,
    vlq_start, vlq_len, vlq_out>>

scan_vars == <<headers, reader_pos, accepted_bytes>>
schema_vars == <<field_definitions, csv_header>>
list_vars == <<field_names, encoding_types, signed_types, predictor_types>>
record_vars == <<fi, record, valid_record>>
vlq_vars == <<vlq_in, vlq_start, vlq_len, vlq_out>>

\* The input files: some of the first MaxHeaderLines lines of HeaderPool, each
\* ended by a line feed, then at most MaxTail bytes of TailBytes.
RECURSIVE HeaderBlock(_, _)
HeaderBlock(sel, i) ==
  IF i > MaxHeaderLines THEN <<>>
  ELSE (IF i \in sel THEN HeaderPool[i] \o <<NEWLINE>> ELSE <<>>)
         \o HeaderBlock(sel, i + 1)

Tails == UNION {[1..n -> TailBytes] : n \in 0..MaxTail}

Files == {HeaderBlock(sel, 1) \o tail : sel \in SUBSET (1..MaxHeaderLines),
                                        tail \in Tails}

Init ==
  /\ file = <<>>
  /\ reader_pos = 0
  /\ headers = <<>>
  /\ accepted_bytes = 0
  /\ field_definitions = <<>>
  /\ csv_header = <<>>
  /\ buffer = <<>>
  /\ cursor = 0
  /\ field_names = <<>>
  /\ encoding_types = <<>>
  /\ signed_types = <<>>
  /\ predictor_types = <<>>
  /\ fi = 1
  /\ record = <<>>
  /\ valid_record = TRUE
  /\ rows = <<>>
  /\ discard_reason = "none"
  /\ write_failed = FALSE
  /\ decode_result = "none"
  /\ result = "none"
  /\ panic_msg = "none"
  /\ build = "any"
  /\ pc = "open"
  /\ vlq_in = 0
  /\ vlq_start = 0
  /\ vlq_len = 0
  /\ vlq_out = 0

(***************************************************************************)
(* main.                                                                   *)
(***************************************************************************)
\* main, lines 53-55: open the input file; its content is any of Files.
\* (A failure to create the writer or to open the file, and a read error,
\* end main with Err before anything is decoded; they are left out.)
OpenFile ==
  /\ pc = "open"
  /\ file' \in Files
  /\ pc' = "start"
  /\ UNCHANGED <<scan_vars, schema_vars, buffer, cursor, list_vars,
                 record_vars, rows, discard_reason, write_failed,
                 decode_result, result, panic_msg, build, vlq_vars>>

\* main, lines 57-75: read the headers
ScanHeaders ==
  /\ pc = "start"
  /\ LET s == ScanLoop(file, 0, <<>>, 0)
     IN  /\ headers' = s.headers
         /\ reader_pos' = s.pos
         /\ accepted_bytes' = s.accepted
  /\ pc' = "scanned"
  /\ UNCHANGED <<file, schema_vars, buffer, cursor, list_vars, record_vars,
                 rows, discard_reason, write_failed, decode_result, result,
                 panic_msg, build, vlq_vars>>

\* main, lines 83-113: parse the field definitions, build the field map and
\* write the header row; a failed write ends main with the error
ParseHeaders ==
  /\ pc = "scanned"
  /\ field_definitions' = parse_field_definitions(headers)
  /\ csv_header' = CsvHeader(field_definitions')
  /\ \E ok \in BOOLEAN :
       IF ok THEN pc' = "header_written" /\ result' = result
       ELSE pc' = "done" /\ result' = "Err"
  /\ UNCHANGED <<file, scan_vars, buffer, cursor, list_vars, record_vars,
                 rows, discard_reason, write_failed, decode_result,
                 panic_msg, build, vlq_vars>>

\* main, lines 115-117: read_to_end, what the reader has not handed out yet
ReadPayload ==
  /\ pc = "header_written"
  /\ buffer' = SubSeq(file, reader_pos + 1, Len(file))
  /\ pc' = "decode"
  /\ UNCHANGED <<file, scan_vars, schema_vars, cursor, list_vars,
                 record_vars, rows, discard_reason, write_failed,
                 decode_result, result, panic_msg, build, vlq_vars>>

\* main, lines 122-124: decode_binary_data returned Ok; flush and return
Finish ==
  /\ pc = "returned"
  /\ \E ok \in BOOLEAN : result' = IF ok THEN "Ok" ELSE "Err"
  /\ pc' = "done"
  /\ UNCHANGED <<file, scan_vars, schema_vars, buffer, cursor, list_vars,
                 record_vars, rows, discard_reason, write_failed,
                 decode_result, panic_msg, build, vlq_vars>>

(***************************************************************************)
(* decode_binary_data.                                                     *)
(***************************************************************************)
\* A panic (expect, an index out of bounds, an arithmetic overflow) ends main.
Panic(msg) ==
  /\ pc' = "done"
  /\ result' = "panic"
  /\ panic_msg' = msg

\* The condition of line 270 without the valid_record flag.
ShouldEmitAnyRecord(valid, rec) == Len(rec) > 0

\* line 270: valid_record && record.len() == desired_fields.len()
ShouldEmit(valid, rec) == valid /\ Len(rec) = Len(desired_fields)

\* lines 179-211: the cursor and the four lists, each from the first header
\* line with its prefix; expect panics when there is none
DecodeSetup ==
  /\ pc = "decode"
  /\ cursor' = 0
  /\ IF ~HasLine(headers, NAME_PREFIX)
     THEN Panic("H Field I name: header not found") /\ UNCHANGED list_vars
     ELSE IF ~HasLine(headers, ENCODING_PREFIX)
     THEN Panic("H Field I encoding: header not found") /\ UNCHANGED list_vars
     ELSE IF ~HasLine(headers, SIGNED_PREFIX)
     THEN Panic("H Field I signed: header not found") /\ UNCHANGED list_vars
     ELSE IF ~HasLine(headers, PREDICTOR_PREFIX)
     THEN Panic("H Field I predictor: header not found")
          /\ UNCHANGED list_vars
     ELSE /\ field_names' = ListOf(FindLine(headers, NAME_PREFIX), NAME_PREFIX)
          /\ encoding_types' =
               ListOf(FindLine(headers, ENCODING_PREFIX), ENCODING_PREFIX)
          /\ signed_types' =
               ListOf(FindLine(headers, SIGNED_PREFIX), SIGNED_PREFIX)
          /\ predictor_types' =
               ListOf(FindLine(headers, PREDICTOR_PREFIX), PREDICTOR_PREFIX)
          /\ pc' = "loop"
          /\ UNCHANGED <<result, panic_msg>>
  /\ UNCHANGED <<file, scan_vars, schema_vars, buffer, record_vars, rows,
                 discard_reason, write_failed, decode_result, build, vlq_vars>>

\* lines 213-215 and 277: the head of the while loop, and the return after it
LoopHead ==
  /\ pc = "loop"
  /\ IF cursor < Len(buffer)
     THEN /\ record' = <<>>
          /\ valid_record' = TRUE
          /\ fi' = 1
          /\ pc' = IF Len(desired_fields) = 0 THEN "record_end" ELSE "field"
          /\ UNCHANGED decode_result
     ELSE /\ pc' = "returned"
          /\ decode_result' = "Ok"
          /\ UNCHANGED record_vars
  /\ UNCHANGED <<file, scan_vars, schema_vars, buffer, cursor, list_vars,
                 rows, discard_reason, write_failed, result, panic_msg, build,
                 vlq_vars>>

\* valid_record = false; break
Invalidate(reason) ==
  /\ valid_record' = FALSE
  /\ discard_reason' = reason
  /\ pc' = "record_end"
  /\ UNCHANGED <<cursor, record, fi, result, panic_msg, build>>

\* record.push(value.to_string()), and on to the next desired field
Push(r) ==
  /\ cursor' = r.cursor
  /\ record' = Append(record, r.value)
  /\ IF fi = Len(desired_fields)
     THEN pc' = "record_end" /\ fi' = fi
     ELSE pc' = "field" /\ fi' = fi + 1
  /\ UNCHANGED <<valid_record, discard_reason, result, panic_msg>>

\* lines 217-268: one pass of the for loop, for desired_fields[fi]
FieldStep ==
  /\ pc = "field"
  /\ LET field_name == desired_fields[fi]
         index == Position(field_names, field_name)
     IN  IF index = 0
         THEN Invalidate("absent")
         ELSE IF \/ index > Len(encoding_types)
                 \/ index > Len(signed_types)
                 \/ index > Len(predictor_types)
         THEN /\ Panic("index out of bounds")
              /\ UNCHANGED <<cursor, record_vars, discard_reason, build>>
         ELSE LET encoding == parse_u8_or_0(encoding_types[index])
                  signed == signed_types[index] = STR_ONE
              IN  IF field_name \notin DOMAIN FieldMap(field_definitions)
                  THEN Invalidate("absent")
                  ELSE IF cursor + 1 > Len(buffer)
                  THEN Invalidate("exhausted")
                  ELSE IF encoding \notin {0, 1}
                  THEN Invalidate("unknown encoding")
                  ELSE LET r == DecodeValue(buffer, cursor, encoding, signed)
                       IN  IF r.overflow
                           THEN \/ /\ build = "any"
                                   /\ Panic("arithmetic overflow")
                                   /\ UNCHANGED <<cursor, record_vars,
                                                  discard_reason, build>>
                                \/ Push(r) /\ build' = "release"
                           ELSE Push(r) /\ UNCHANGED build
  /\ UNCHANGED <<file, scan_vars, schema_vars, buffer, list_vars, rows,
                 write_failed, decode_result, vlq_vars>>

\* lines 270-274: write the record if it is complete; a failed write breaks
\* out of the while loop, and line 277 returns Ok(())
RecordEnd ==
  /\ pc = "record_end"
  /\ IF ShouldEmit(valid_record, record)
     THEN \E ok \in BOOLEAN :
            IF ok
            THEN /\ rows' = Append(rows, record)
                 /\ pc' = "loop"
                 /\ UNCHANGED <<write_failed, decode_result>>
            ELSE /\ write_failed' = TRUE
                 /\ pc' = "returned"
                 /\ decode_result' = "Ok"
                 /\ UNCHANGED rows
     ELSE /\ pc' = "loop"
          /\ UNCHANGED <<rows, write_failed, decode_result>>
  /\ UNCHANGED <<file, scan_vars, schema_vars, buffer, cursor, list_vars,
                 record_vars, discard_reason, result, panic_msg, build,
                 vlq_vars>>

Next ==
  \/ OpenFile
  \/ ScanHeaders
  \/ ParseHeaders
  \/ ReadPayload
  \/ DecodeSetup
  \/ LoopHead
  \/ FieldStep
  \/ RecordEnd
  \/ Finish

Spec == Init /\ [][Next]_vars

\* decode_binary_data runs in main's one thread, which nothing suspends: a
\* step of its while loop that can be taken is taken.
FairSpec == Init /\ [][Next]_vars /\ WF_vars(LoopHead \/ FieldStep \/ RecordEnd)

(***************************************************************************)
(* The VLQ round trip: an integer is encoded (sign in bit 0, magnitude in  *)
(* the bits above it, then 7-bit groups, low group first, each but the     *)
(* last with the continuation bit) and read back with read_signed_vlq.     *)
(***************************************************************************)
\* The set bit positions of a natural number below 2^31.
BitsOfNat(n) == {i \in 0..30 : (n \div (2 ^ i)) % 2 = 1}

MaxOf(S) == CHOOSE x \in S : \A y \in S : y <= x

EncodeUnsigned(bits) ==
  LET n == IF bits = {} THEN 1 ELSE (MaxOf(bits) \div 7) + 1
  IN  [k \in 1..n |->
         BitsValue({i - 7 * (k - 1) :
                      i \in bits \cap ((7 * (k - 1))..(7 * (k - 1) + 6))})
           + (IF k < n THEN 128 ELSE 0)]

EncodeSigned(v) ==
  EncodeUnsigned({i + 1 : i \in BitsOfNat(IF v < 0 THEN -v ELSE v)}
                   \cup (IF v < 0 THEN {0} ELSE {}))

\* Magnitudes at the edges of the 1- to 5-byte encodings.
VlqEdges ==
  {63, 64, 8191, 8192, 1048575, 1048576, 134217727, 134217728, 2147483647}

VlqInputs ==
  ((-MaxSmall)..MaxSmall) \cup VlqEdges \cup {-m : m \in VlqEdges}

Pads == UNION {[1..n -> TailBytes] : n \in 0..MaxPad}

InitVLQ ==
  /\ vlq_in \in VlqInputs
  /\ vlq_start = 0
  /\ vlq_len = 0
  /\ vlq_out = 0
  /\ pc = "vlq_encode"
  /\ file = <<>>
  /\ reader_pos = 0
  /\ headers = <<>>
  /\ accepted_bytes = 0
  /\ field_definitions = <<>>
  /\ csv_header = <<>>
  /\ buffer = <<>>
  /\ cursor = 0
  /\ field_names = <<>>
  /\ encoding_types = <<>>
  /\ signed_types = <<>>
  /\ predictor_types = <<>>
  /\ fi = 1
  /\ record = <<>>
  /\ valid_record = TRUE
  /\ rows = <<>>
  /\ discard_reason = "none"
  /\ write_failed = FALSE
  /\ decode_result = "none"
  /\ result = "none"
  /\ panic_msg = "none"
  /\ build = "any"

\* The encoded integer is laid into a buffer, other bytes before and after it.
VlqEncode ==
  /\ pc = "vlq_encode"
  /\ \E before \in Pads, after \in Pads :
       /\ buffer' = before \o EncodeSigned(vlq_in) \o after
       /\ vlq_start' = Len(before)
       /\ cursor' = Len(before)
  /\ vlq_len' = Len(EncodeSigned(vlq_in))
  /\ pc' = "vlq_decode"
  /\ UNCHANGED <<file, scan_vars, schema_vars, list_vars, record_vars, rows,
                 discard_reason, write_failed, decode_result, result,
                 panic_msg, build, vlq_in, vlq_out>>

\* read_signed_vlq(data, &mut cursor)
VlqDecode ==
  /\ pc = "vlq_decode"
  /\ LET r == read_signed_vlq(buffer, cursor)
     IN  /\ vlq_out' = r.value
         /\ cursor' = r.cursor
         /\ IF r.overflow
            THEN \/ build = "any" /\ Panic("arithmetic overflow")
                                  /\ UNCHANGED build
                 \/ pc' = "vlq_done" /\ build' = "release"
                                     /\ UNCHANGED <<result, panic_msg>>
            ELSE pc' = "vlq_done" /\ UNCHANGED <<result, panic_msg, build>>
  /\ UNCHANGED <<file, scan_vars, schema_vars, buffer, list_vars, record_vars,
                 rows, discard_reason, write_failed, decode_result, vlq_in,
                 vlq_start, vlq_len>>

NextVLQ ==
  \/ VlqEncode
  \/ VlqDecode

SpecVLQ == InitVLQ /\ [][NextVLQ]_vars

(***************************************************************************)
(* The claims.                                                             *)
(***************************************************************************)
InDecode == pc \in {"loop", "field", "record_end", "returned"}

\* C1: the record-decoding loop of decode_binary_data cannot hang: once
\* reached, it eventually ends (decode_binary_data returns, or a panic ends
\* main), whatever the payload and the schema.
C1_DecodeTerminates == (pc = "loop") ~> (pc \in {"returned", "done"})

\* C2: when the scan stops at a line with a non-ASCII byte, that line is not
\* consumed: the payload handed to the decoder is every byte of the file after
\* the accepted header lines, beginning with the failing line.
C2_PayloadStartsAtFailingLine ==
  pc = "decode" => buffer = SubSeq(file, accepted_bytes + 1, Len(file))

\* C3: projection is schema-adaptive: a desired name absent from the schema
\* is skipped and never invalidates a record, and every emitted row has one
\* cell for each desired name the schema holds.
C3_AbsentFieldIsSkipped ==
  /\ discard_reason # "absent"
  /\ \A i \in 1..Len(rows) : Len(rows[i]) = Len(csv_header)

\* The position after the VLQ that starts at pos, -1 if the buffer ends
\* before the VLQ's last byte.
RECURSIVE VlqEnd(_, _)
VlqEnd(data, pos) ==
  IF pos >= Len(data) THEN -1
  ELSE IF data[pos + 1] < 128 THEN pos + 1
  ELSE VlqEnd(data, pos + 1)

\* The number of records of nfields VLQs each that lie whole in data from pos
\* on, k fields of the current record and n records being behind pos.
RECURSIVE CompleteRecords(_, _, _, _, _)
CompleteRecords(data, nfields, pos, k, n) ==
  IF k = nfields THEN
    IF pos >= Len(data) THEN n + 1
    ELSE CompleteRecords(data, nfields, pos, 0, n + 1)
  ELSE LET e == VlqEnd(data, pos)
       IN  IF e = -1 THEN n
           ELSE CompleteRecords(data, nfields, e, k + 1, n)

\* Every desired field is in both name lists with an encoding the decoder
\* knows: no record is discarded for the schema's sake.
DecodableSchema ==
  \A i \in 1..Len(desired_fields) :
    LET index == Position(field_names, desired_fields[i])
    IN  /\ index # 0
        /\ index <= Len(encoding_types)
        /\ parse_u8_or_0(encoding_types[index]) \in {0, 1}
        /\ desired_fields[i] \in DOMAIN FieldMap(field_definitions)

\* C4: a payload whose last record is truncated yields exactly the complete
\* records that fit; there is no row for the trailing partial record.
C4_PartialRecordDropped ==
  (pc = "returned" /\ ~write_failed /\ DecodableSchema /\ Len(desired_fields) > 0)
    => Len(rows) = CompleteRecords(buffer, Len(desired_fields), 0, 0, 0)

\* C5: with a field-name line in the header, an encoding, signed or predictor
\* line that is absent or shorter than the name list is never fatal and never
\* an index error.
C5_MissingAttributeNotFatal ==
  HasLine(headers, NAME_PREFIX) =>
    panic_msg \notin {"H Field I encoding: header not found",
                      "H Field I signed: header not found",
                      "H Field I predictor: header not found",
                      "index out of bounds"}

\* The last header line with the prefix.
LastLine(hdrs, prefix) ==
  hdrs[CHOOSE i \in 1..Len(hdrs) :
         starts_with(hdrs[i], prefix)
         /\ \A k \in (i + 1)..Len(hdrs) : ~starts_with(hdrs[k], prefix)]

\* C6: of several header lines with the same prefix the last wins: the names,
\* encodings and signed flags the decoder uses are those of the last line.
C6_LastLineWins ==
  InDecode =>
    /\ field_names = ListOf(LastLine(headers, NAME_PREFIX), NAME_PREFIX)
    /\ encoding_types =
         ListOf(LastLine(headers, ENCODING_PREFIX), ENCODING_PREFIX)
    /\ signed_types = ListOf(LastLine(headers, SIGNED_PREFIX), SIGNED_PREFIX)

\* C7: when writing a data row fails, decode_binary_data returns an error.
C7_WriteFailurePropagates ==
  (write_failed /\ decode_result # "none") => decode_result = "Err"

\* C8: an integer encoded as a signed VLQ and read with read_signed_vlq comes
\* back unchanged, the cursor advanced by exactly the encoded bytes.
C8_VlqRoundTrip ==
  pc = "vlq_done" => /\ vlq_out = vlq_in
                     /\ cursor = vlq_start + vlq_len

C8_Witness ==
  /\ pc = "vlq_done"
  /\ vlq_in = -2147483647
  /\ vlq_len = 5
  /\ vlq_start > 0
  /\ cursor < Len(buffer)

\* C9: once a record has been discarded, no further data row is emitted.
C9_NoRowAfterDiscard == [][discard_reason # "none" => rows' = rows]_vars

C9_Witness ==
  /\ discard_reason = "exhausted"
  /\ Len(rows) >= 1
  /\ pc = "returned"

\* C10: the cursor never exceeds the payload length and never moves back.
C10_CursorMonotoneInBounds ==
  /\ [](cursor <= Len(buffer))
  /\ [][cursor' >= cursor]_vars

C10_Witness ==
  /\ pc = "record_end"
  /\ cursor = Len(buffer)
  /\ cursor >= 2
  /\ buffer[Len(buffer)] >= 128
=============================================================================
